---- MODULE Spec2Model ----
(***************************************************************************)
(* Model of the public_library book service: the Repository (SQL against   *)
(* the books table) and the HTTP handlers that wrap it.                    *)
(*                                                                         *)
(* Text values (titles, path segments, search strings) are sequences of    *)
(* one-character strings so that parsing and matching are computed.        *)
(* A JSON field that may be absent is a sequence of length 0 or 1.         *)
(***************************************************************************)
EXTENDS Integers, Sequences, FiniteSets

\* ------------------------------------------------------------------ bounds

\* Largest id the sequence hands out in the CRUD specification.
MaxId == 2
\* Rows the listing specification may start with.
MaxRows == 12
\* Writes that may overtake listings in the listing specification.
MaxWrites == 1
\* Largest page number and page size a list request carries.
MaxPage == 3
MaxPageSize == 2

\* ------------------------------------------------------------------ values

Dune == <<"D", "u", "n", "e">>
Foundation == <<"F", "o", "u", "n", "d", "a", "t", "i", "o", "n">>
Herbert == <<"H", "e", "r", "b", "e", "r", "t">>
Isbn1 == <<"9", "7", "8">>

Titles == {Dune, Foundation}
Authors == {Herbert}
Isbns == {Isbn1}

\* Go's nil error, the repository's sentinel, and texts of driver errors.
Nil == "nil"
ErrNotFound == "book not found"
NoFault == "no fault"
StorageErrors == {"connection refused", "context deadline exceeded"}
Faults == {NoFault} \cup StorageErrors

\* The zero value of Book.
ZeroBook == [id |-> 0, title |-> <<>>, author |-> <<>>, isbn |-> <<>>]

\* ------------------------------------------------------------------ state

VARIABLES
    books,      \* the books table: id -> [title, author, isbn]
    nextId,     \* next value of the SERIAL sequence behind books.id
    writes,     \* writes committed while a listing was in flight (up to MaxWrites)
    last,       \* the most recent response of a book handler, with its request
    listPc,     \* position of the in-flight ListAllBooks call
    listReq,    \* its decoded PaginationRequest
    listTotal,  \* totalCount scanned by its COUNT query
    listDirty,  \* a write committed after its COUNT query
    lastList    \* the most recent response of GetBooks

vars == <<books, nextId, writes, last, listPc, listReq, listTotal, listDirty, lastList>>

\* ------------------------------------------------------------------ strconv.Atoi

DigitVal == [c \in {"0", "1", "2", "3", "4", "5", "6", "7", "8", "9"} |->
               CASE c = "0" -> 0 [] c = "1" -> 1 [] c = "2" -> 2 [] c = "3" -> 3
                 [] c = "4" -> 4 [] c = "5" -> 5 [] c = "6" -> 6 [] c = "7" -> 7
                 [] c = "8" -> 8 [] c = "9" -> 9]

RECURSIVE ParseDigits(_, _)
ParseDigits(s, acc) ==
    IF s = <<>> THEN acc
    ELSE ParseDigits(Tail(s), acc * 10 + DigitVal[Head(s)])

\* strconv.Atoi: optional sign, then one or more decimal digits; on a syntax
\* error the value is 0 and the error is set.
Atoi(s) ==
    LET signed == s # <<>> /\ Head(s) \in {"+", "-"}
        digits == IF signed THEN Tail(s) ELSE s
        bad == digits = <<>> \/ \E i \in 1..Len(digits) : digits[i] \notin DOMAIN DigitVal
    IN  IF bad THEN [val |-> 0, ok |-> FALSE]
        ELSE [val |-> IF Head(s) = "-" THEN 0 - ParseDigits(digits, 0)
                      ELSE ParseDigits(digits, 0),
              ok |-> TRUE]

\* ------------------------------------------------------------------ JSON bodies

\* Decoding a body into a fresh Book: an absent field keeps its zero value.
Field(opt, zero) == IF opt = <<>> THEN zero ELSE opt[1]

DecodeBook(body) ==
    [ok |-> body.valid,
     book |-> IF body.valid
              THEN [id |-> Field(body.id, 0), title |-> Field(body.title, <<>>),
                    author |-> Field(body.author, <<>>), isbn |-> Field(body.isbn, <<>>)]
              ELSE ZeroBook]

\* ------------------------------------------------------------------ Repository

Row(b) == [title |-> b.title, author |-> b.author, isbn |-> b.isbn]
Entity(id, row) == [id |-> id, title |-> row.title, author |-> row.author, isbn |-> row.isbn]

\* SELECT id, title, author, isbn FROM books WHERE id = $1
GetByID(tbl, id, fault) ==
    IF fault # NoFault THEN [err |-> fault, book |-> ZeroBook]
    ELSE IF id \notin DOMAIN tbl THEN [err |-> ErrNotFound, book |-> ZeroBook]
    ELSE [err |-> Nil, book |-> Entity(id, tbl[id])]

\* Variant: the INSERT also writes the id the caller sent, when it sent one.
CreateKeepsCallerId(tbl, seq, b, fault) ==
    LET id == IF b.id # 0 THEN b.id ELSE seq
    IN  IF fault # NoFault THEN [err |-> fault, book |-> b, tbl |-> tbl, seq |-> seq]
        ELSE [err |-> Nil, book |-> [b EXCEPT !.id = id],
              tbl |-> [i \in DOMAIN tbl \cup {id} |-> IF i = id THEN Row(b) ELSE tbl[i]],
              seq |-> seq + 1]

\* Variant: the id is the smallest one no row holds, not the next of a sequence.
CreateReusesFreeId(tbl, seq, b, fault) ==
    LET id == CHOOSE i \in 1..seq : i \notin DOMAIN tbl /\ \A j \in 1..(i - 1) : j \in DOMAIN tbl
    IN  IF fault # NoFault THEN [err |-> fault, book |-> b, tbl |-> tbl, seq |-> seq]
        ELSE [err |-> Nil, book |-> [b EXCEPT !.id = id],
              tbl |-> [i \in DOMAIN tbl \cup {id} |-> IF i = id THEN Row(b) ELSE tbl[i]],
              seq |-> seq + 1]

\* INSERT INTO books (title, author, isbn) VALUES ($1, $2, $3) RETURNING id
Create(tbl, seq, b, fault) ==
    IF fault # NoFault THEN [err |-> fault, book |-> b, tbl |-> tbl, seq |-> seq]
    ELSE [err |-> Nil, book |-> [b EXCEPT !.id = seq],
          tbl |-> [i \in DOMAIN tbl \cup {seq} |-> IF i = seq THEN Row(b) ELSE tbl[i]],
          seq |-> seq + 1]

\* Variant: an empty value in the entity keeps the column's old value.
UpdateMerges(tbl, b, fault) ==
    LET keep(new, old) == IF new = <<>> THEN old ELSE new
    IN  IF fault # NoFault THEN [err |-> fault, tbl |-> tbl]
        ELSE IF b.id \notin DOMAIN tbl THEN [err |-> ErrNotFound, tbl |-> tbl]
        ELSE [err |-> Nil,
              tbl |-> [tbl EXCEPT ![b.id] = [title |-> keep(b.title, @.title),
                                             author |-> keep(b.author, @.author),
                                             isbn |-> keep(b.isbn, @.isbn)]]]

\* UPDATE books SET title = $1, author = $2, isbn = $3 WHERE id = $4
Update(tbl, b, fault) ==
    IF fault # NoFault THEN [err |-> fault, tbl |-> tbl]
    ELSE IF b.id \notin DOMAIN tbl THEN [err |-> ErrNotFound, tbl |-> tbl]
    ELSE [err |-> Nil, tbl |-> [tbl EXCEPT ![b.id] = Row(b)]]

\* Variant: the count of affected rows is not looked at.
DeleteIgnoresMissing(tbl, id, fault) ==
    IF fault # NoFault THEN [err |-> fault, tbl |-> tbl]
    ELSE [err |-> Nil, tbl |-> [i \in DOMAIN tbl \ {id} |-> tbl[i]]]

\* DELETE FROM books WHERE id = $1
Delete(tbl, id, fault) ==
    IF fault # NoFault THEN [err |-> fault, tbl |-> tbl]
    ELSE IF id \notin DOMAIN tbl THEN [err |-> ErrNotFound, tbl |-> tbl]
    ELSE [err |-> Nil, tbl |-> [i \in DOMAIN tbl \ {id} |-> tbl[i]]]

\* ------------------------------------------------------------------ handlers

NoBody == [valid |-> FALSE, id |-> <<>>, title |-> <<>>, author |-> <<>>, isbn |-> <<>>]

\* A response as the client sees it (status, text or book), together with the
\* request it answers (op, path, body), what the handler did with the
\* repository (called, err), and follows: the id the request before it was
\* given, when that request was a successful create (0 otherwise).
Response(op, path, body, status, text, book, called, err) ==
    [op |-> op, path |-> path, body |-> body, status |-> status, text |-> text,
     book |-> book, called |-> called, err |-> err,
     follows |-> IF last.op = "create" /\ last.status = 201 THEN last.book.id ELSE 0]

\* Bookkeeping of a write statement that ran: one that committed between the
\* two queries of a listing marks that listing as overtaken and is counted.
Commit(err) ==
    LET overtakes == err = Nil /\ listPc = "counted"
    IN  /\ writes' = IF overtakes /\ writes < MaxWrites THEN writes + 1 ELSE writes
        /\ listDirty' = (listDirty \/ overtakes)

\* GET /books/{id}
GetBookByID(path, fault) ==
    LET id == Atoi(path)
        r == GetByID(books, id.val, fault)
    IN  /\ last' = IF ~id.ok
                   THEN Response("get", path, NoBody, 400, "invalid book ID", ZeroBook, FALSE, Nil)
                   ELSE IF r.err = ErrNotFound
                   THEN Response("get", path, NoBody, 404, "book not found", ZeroBook, TRUE, r.err)
                   ELSE IF r.err # Nil
                   THEN Response("get", path, NoBody, 500, "internal server error", ZeroBook, TRUE, r.err)
                   ELSE Response("get", path, NoBody, 200, "", r.book, TRUE, Nil)
        /\ UNCHANGED <<books, nextId, writes, listPc, listReq, listTotal, listDirty, lastList>>

\* POST /books/create
CreateBook(body, fault) ==
    LET d == DecodeBook(body)
        r == Create(books, nextId, d.book, fault)
    IN  IF ~d.ok
        THEN /\ last' = Response("create", <<>>, body, 400, "invalid JSON", ZeroBook, FALSE, Nil)
             /\ UNCHANGED <<books, nextId, writes, listPc, listReq, listTotal, listDirty, lastList>>
        ELSE /\ books' = r.tbl
             /\ nextId' = r.seq
             /\ Commit(r.err)
             /\ last' = IF r.err # Nil
                        THEN Response("create", <<>>, body, 500, "create failed", ZeroBook, TRUE, r.err)
                        ELSE Response("create", <<>>, body, 201, "", r.book, TRUE, Nil)
             /\ UNCHANGED <<listPc, listReq, listTotal, lastList>>

\* PUT /books/{id}
UpdateBook(path, body, fault) ==
    LET id == Atoi(path).val
        d == DecodeBook(body)
        b == [d.book EXCEPT !.id = id]
        r == Update(books, b, fault)
    IN  IF ~d.ok
        THEN /\ last' = Response("update", path, body, 400, "invalid JSON", ZeroBook, FALSE, Nil)
             /\ UNCHANGED <<books, nextId, writes, listPc, listReq, listTotal, listDirty, lastList>>
        ELSE /\ books' = r.tbl
             /\ Commit(r.err)
             /\ last' = IF r.err # Nil
                        THEN Response("update", path, body, 500, r.err, ZeroBook, TRUE, r.err)
                        ELSE Response("update", path, body, 200, "", b, TRUE, Nil)
             /\ UNCHANGED <<nextId, listPc, listReq, listTotal, lastList>>

\* DELETE /books/{id}
DeleteBook(path, fault) ==
    LET id == Atoi(path).val
        r == Delete(books, id, fault)
    IN  /\ books' = r.tbl
        /\ Commit(r.err)
        /\ last' = IF r.err # Nil
                   THEN Response("delete", path, NoBody, 500, r.err, ZeroBook, TRUE, r.err)
                   ELSE Response("delete", path, NoBody, 204, "", ZeroBook, TRUE, Nil)
        /\ UNCHANGED <<nextId, listPc, listReq, listTotal, lastList>>

\* ------------------------------------------------------------------ listing

UpperCase == <<"A", "B", "C", "D", "E", "F", "G", "H", "I", "J", "K", "L", "M",
               "N", "O", "P", "Q", "R", "S", "T", "U", "V", "W", "X", "Y", "Z">>
LowerCase == <<"a", "b", "c", "d", "e", "f", "g", "h", "i", "j", "k", "l", "m",
               "n", "o", "p", "q", "r", "s", "t", "u", "v", "w", "x", "y", "z">>

Lower(c) ==
    IF \E i \in 1..Len(UpperCase) : UpperCase[i] = c
    THEN LowerCase[CHOOSE i \in 1..Len(UpperCase) : UpperCase[i] = c]
    ELSE c

Fold(s) == [i \in 1..Len(s) |-> Lower(s[i])]

\* text ILIKE '%' || search || '%'
ILike(text, search) ==
    \E k \in 0..(Len(text) - Len(search)) :
        Fold(SubSeq(text, k + 1, k + Len(search))) = Fold(search)

\* Columns of the books table.
Columns == {"id", "title", "author", "isbn"}

\* The WHERE clause ListAllBooks builds: "1=1", and with a search text also
\* a pattern match on one column.
NoFilter == [column |-> "", pattern |-> <<>>]
WhereClause(search) ==
    IF search = <<>> THEN NoFilter
    ELSE [column |-> "currency", pattern |-> search]

\* The table ListAllBooks names in its two statements (utils.BooksTable).
BooksTable == "books"

\* The text of the error for a statement the database rejects.
SqlError == "statement rejected"

\* Whether the database accepts a statement on this table with this WHERE
\* clause: the table is the one createTables made, and a pattern match is on
\* one of its text columns.
StatementValid(table, where) ==
    /\ table = "books"
    /\ where = NoFilter \/ where.column \in Columns \ {"id"}

\* Ids of the rows a valid WHERE clause selects.
Matching(tbl, where) ==
    IF where = NoFilter THEN DOMAIN tbl
    ELSE {i \in DOMAIN tbl : ILike(tbl[i][where.column], where.pattern)}

RECURSIVE Ascending(_)
Ascending(S) ==
    IF S = {} THEN <<>>
    ELSE LET m == CHOOSE x \in S : \A y \in S : x <= y
         IN  <<m>> \o Ascending(S \ {m})

Reverse(s) == [i \in 1..Len(s) |-> s[Len(s) + 1 - i]]

\* The statement has no ORDER BY: the rows may come in either direction.
ScanOrder(S, forward) == IF forward THEN Ascending(S) ELSE Reverse(Ascending(S))

RECURSIVE Drop(_, _)
Drop(s, n) == IF n = 0 \/ s = <<>> THEN s ELSE Drop(Tail(s), n - 1)

RECURSIVE Take(_, _)
Take(s, n) == IF n = 0 \/ s = <<>> THEN <<>> ELSE <<Head(s)>> \o Take(Tail(s), n - 1)

ZeroRequest == [page |-> 0, page_size |-> 0, search |-> <<>>]
NoListBody == [valid |-> FALSE, page |-> <<>>, page_size |-> <<>>, search |-> <<>>]

DecodeRequest(body) ==
    [ok |-> body.valid,
     req |-> IF body.valid
             THEN [page |-> Field(body.page, 0), page_size |-> Field(body.page_size, 0),
                   search |-> Field(body.search, <<>>)]
             ELSE ZeroRequest]

DefaultLimit == 10
Limit(req) == IF req.page_size = 0 THEN DefaultLimit ELSE req.page_size
\* Variant: pages counted from 0.
OffsetFromPageZero(req) == req.page * Limit(req)

Offset(req) == (req.page - 1) * Limit(req)

\* SELECT COUNT(*) FROM books WHERE ...
CountQuery(tbl, where, fault) ==
    IF ~StatementValid(BooksTable, where) THEN [err |-> SqlError, n |-> 0]
    ELSE IF fault # NoFault THEN [err |-> fault, n |-> 0]
    ELSE [err |-> Nil, n |-> Cardinality(Matching(tbl, where))]

\* SELECT id, title, author, isbn FROM books WHERE ... LIMIT $n OFFSET $m.
\* The database rejects a negative LIMIT or OFFSET.
DataQuery(tbl, where, limit, offset, forward, fault) ==
    IF ~StatementValid(BooksTable, where) \/ limit < 0 \/ offset < 0 THEN [err |-> SqlError, rows |-> <<>>]
    ELSE IF fault # NoFault THEN [err |-> fault, rows |-> <<>>]
    ELSE LET ids == Take(Drop(ScanOrder(Matching(tbl, where), forward), offset), limit)
         IN  [err |-> Nil, rows |-> [i \in 1..Len(ids) |-> Entity(ids[i], tbl[ids[i]])]]

\* Variant: the two counts ListAllBooks returns taken in the other order.
ListResponseSwapped(body, status, text, pageCount, totalCount, data, err, matched, overtaken) ==
    [body |-> body, status |-> status, text |-> text, total_count |-> pageCount,
     page_count |-> totalCount, data |-> data, err |-> err, matched |-> matched,
     overtaken |-> overtaken]

\* The response of GetBooks with the request it answers and the error
\* ListAllBooks returned; matched and overtaken record, for a 200, how many
\* rows matched when the data query ran and whether a write committed between
\* the two queries.
ListResponse(body, status, text, pageCount, totalCount, data, err, matched, overtaken) ==
    [body |-> body, status |-> status, text |-> text, total_count |-> totalCount,
     page_count |-> pageCount, data |-> data, err |-> err, matched |-> matched,
     overtaken |-> overtaken]

NoListResponse ==
    [body |-> NoListBody, status |-> 0, text |-> "", total_count |-> 0, page_count |-> 0,
     data |-> <<>>, err |-> Nil, matched |-> 0, overtaken |-> FALSE]

\* POST /books/list, up to and including the COUNT query of ListAllBooks.
GetBooksCount(body, fault) ==
    LET d == DecodeRequest(body)
        c == CountQuery(books, WhereClause(d.req.search), fault)
    IN  /\ listPc = "idle"
        /\ IF ~d.ok
           THEN /\ lastList' = ListResponse(body, 400, "{\"error\": \"invalid request\"}", 0, 0, <<>>,
                                         Nil, 0, FALSE)
                /\ UNCHANGED <<listPc, listReq, listTotal, listDirty>>
           ELSE IF c.err # Nil
           THEN /\ lastList' = ListResponse(body, 500, "internal error", 0, 0, <<>>, c.err, 0, FALSE)
                /\ UNCHANGED <<listPc, listReq, listTotal, listDirty>>
           ELSE /\ listPc' = "counted"
                /\ listReq' = body
                /\ listTotal' = c.n
                /\ listDirty' = FALSE
                /\ lastList' = NoListResponse
        /\ UNCHANGED <<books, nextId, writes, last>>

\* The rest of the request: the data query of ListAllBooks and the response.
GetBooksSelect(forward, fault) ==
    LET req == DecodeRequest(listReq).req
        where == WhereClause(req.search)
        q == DataQuery(books, where, Limit(req), Offset(req), forward, fault)
    IN  /\ listPc = "counted"
        /\ lastList' = IF q.err # Nil
                       THEN ListResponse(listReq, 500, "internal error", 0, 0, <<>>, q.err, 0, FALSE)
                       ELSE ListResponse(listReq, 200, "", Len(q.rows), listTotal, q.rows, Nil,
                                         Cardinality(Matching(books, where)), listDirty)
        /\ listPc' = "idle"
        /\ listReq' = NoListBody
        /\ listTotal' = 0
        /\ listDirty' = FALSE
        /\ UNCHANGED <<books, nextId, writes, last>>

\* ------------------------------------------------------------------ inputs

Opt(S) == {<<>>} \cup {<<x>> : x \in S}

\* Path segments a client may send for {id}.
PathIds == {<<"1">>, <<"2">>, <<"3">>, <<"9">>, <<"0", "2">>, <<"x">>, <<"1", "x">>}

\* Request bodies for create and update: undecodable, complete (with an id of
\* the caller's), complete without id, title only, and the empty object.
BookBodies ==
    {NoBody,
     [valid |-> TRUE, id |-> <<7>>, title |-> <<Dune>>, author |-> <<Herbert>>, isbn |-> <<Isbn1>>],
     [valid |-> TRUE, id |-> <<>>, title |-> <<Foundation>>, author |-> <<Herbert>>, isbn |-> <<Isbn1>>],
     [valid |-> TRUE, id |-> <<1>>, title |-> <<Dune>>, author |-> <<>>, isbn |-> <<>>],
     [valid |-> TRUE, id |-> <<>>, title |-> <<>>, author |-> <<>>, isbn |-> <<>>]}

\* Request bodies for list: undecodable, every page and page size without a
\* search text, and a search text in either letter case.
ListBodies ==
    {NoListBody}
    \cup [valid : {TRUE}, page : Opt(1..MaxPage),
          page_size : Opt((1..MaxPageSize) \cup {0 - 1}), search : {<<>>}]
    \cup [valid : {TRUE}, page : {<<1>>}, page_size : {<<MaxPageSize>>},
          search : {<< <<"d", "u", "n">> >>, << <<"D", "U", "N">> >>}]

DigitChars == <<"0", "1", "2", "3", "4", "5", "6", "7", "8", "9">>
LowerDigit(n) == DigitChars[n + 1]

RECURSIVE Itoa(_)
Itoa(n) == IF n < 10 THEN <<LowerDigit(n)>> ELSE Itoa(n \div 10) \o <<LowerDigit(n % 10)>>

\* ------------------------------------------------------------------ specifications

NoResponse ==
    [op |-> "none", path |-> <<>>, body |-> NoBody, status |-> 0, text |-> "",
     book |-> ZeroBook, called |-> FALSE, err |-> Nil, follows |-> 0]

Init ==
    /\ books = <<>>
    /\ nextId = 1
    /\ writes = 0
    /\ last = NoResponse
    /\ listPc = "idle"
    /\ listReq = NoListBody
    /\ listTotal = 0
    /\ listDirty = FALSE
    /\ lastList = NoListResponse

Next ==
    \/ \E body \in BookBodies, fault \in Faults : nextId <= MaxId /\ CreateBook(body, fault)
    \/ \E path \in PathIds, fault \in Faults : GetBookByID(path, fault)
    \/ \E path \in PathIds, body \in BookBodies, fault \in Faults : UpdateBook(path, body, fault)
    \/ \E path \in PathIds, fault \in Faults : DeleteBook(path, fault)

Spec == Init /\ [][Next]_vars

\* The listing specification starts from a table that earlier creates left
\* behind: rows 1..n, titles alternating.
SeedRow(i) == [title |-> IF i % 2 = 1 THEN Dune ELSE Foundation, author |-> Herbert, isbn |-> Isbn1]

\* Small tables, and tables just above the default page size.
SeedSizes == (0..5) \cup {MaxRows - 1, MaxRows}

InitList ==
    /\ \E n \in SeedSizes : books = [i \in 1..n |-> SeedRow(i)] /\ nextId = n + 1
    /\ writes = 0
    /\ last = NoResponse
    /\ listPc = "idle"
    /\ listReq = NoListBody
    /\ listTotal = 0
    /\ listDirty = FALSE
    /\ lastList = NoListResponse

ListFaults == {NoFault, "connection refused"}
ListCreates == {[valid |-> TRUE, id |-> <<>>, title |-> <<Dune>>, author |-> <<Herbert>>, isbn |-> <<Isbn1>>]}

NextList ==
    \/ \E body \in ListBodies, fault \in ListFaults : GetBooksCount(body, fault)
    \/ \E forward \in BOOLEAN, fault \in ListFaults : GetBooksSelect(forward, fault)
    \/ \E body \in ListCreates :
           listPc = "counted" /\ writes < MaxWrites /\ CreateBook(body, NoFault)
    \/ \E id \in DOMAIN books :
           listPc = "counted" /\ writes < MaxWrites /\ DeleteBook(Itoa(id), NoFault)

SpecList == InitList /\ [][NextList]_vars

\* ------------------------------------------------------------------ claims

Success(status) == status \in 200..299

Min(a, b) == IF a < b THEN a ELSE b
Max(a, b) == IF a > b THEN a ELSE b

\* The id a handler hands to the repository for the path of a response.
PathId(r) == Atoi(r.path).val

\* The statement behind a response ran: the repository was called and no
\* driver error came back.
Ran(r) == r.called /\ r.err \notin StorageErrors

\* The title, author and ISBN a body carries, an absent field being empty.
Sent(body) ==
    [title |-> IF body.title = <<>> THEN <<>> ELSE body.title[1],
     author |-> IF body.author = <<>> THEN <<>> ELSE body.author[1],
     isbn |-> IF body.isbn = <<>> THEN <<>> ELSE body.isbn[1]]

\* C1: a successful create answers with the id the storage sequence assigned,
\* positive and whatever id the body carried, the new row holds the body's
\* title, author and ISBN, and a get of that id right after it answers 200 with
\* that id and the same title, author and ISBN.
C1_CreateThenGet ==
    [][/\ (last'.op = "create" /\ last'.status = 201) =>
            /\ last'.book.id = nextId
            /\ last'.book.id > 0
            /\ last'.book.id \notin DOMAIN books
            /\ last'.book.id \in DOMAIN books'
            /\ books'[last'.book.id] = Sent(last'.body)
            /\ Row(last'.book) = Sent(last'.body)
       /\ (/\ last.op = "create" /\ last.status = 201
           /\ last'.op = "get" /\ Atoi(last'.path).ok /\ PathId(last') = last.book.id
           /\ Ran(last')) =>
            /\ last'.status = 200
            /\ last'.book.id = last.book.id
            /\ Row(last'.book) = Sent(last.body)]_vars

\* C1 witness: a get that follows the create of its id, whose body carried
\* another id, and answers 200.
C1_Witness ==
    /\ last.op = "get" /\ last.status = 200
    /\ last.follows > 0 /\ PathId(last) = last.follows
    /\ last.book.id = last.follows /\ last.book.id # 7
    /\ last.book.title = Dune /\ last.book.author = Herbert

\* C2: a get, update or delete of an id that has no row leaves the table as it
\* was and answers with a status outside 2xx, and when its statement ran the
\* repository's error is ErrNotFound.
C2_MissingIdNotFound ==
    [][(last'.op \in {"get", "update", "delete"} /\ PathId(last') \notin DOMAIN books) =>
            /\ books' = books
            /\ ~Success(last'.status)
            /\ Ran(last') => last'.err = ErrNotFound]_vars

\* C2 witness: an update of a numeric id without a row came back as ErrNotFound.
C2_Witness ==
    /\ last.op = "update" /\ Atoi(last.path).ok /\ PathId(last) \notin DOMAIN books
    /\ last.called /\ last.err = ErrNotFound /\ ~Success(last.status)

\* C3: a delete of an existing id whose statement ran answers 204 and removes
\* that row and no other; a delete of the same id right after it gets
\* ErrNotFound; and an id that was assigned and has no row never has a row
\* again, so every later get, update or delete of it gets ErrNotFound.
C3_DeleteTwice ==
    [][/\ (last'.op = "delete" /\ PathId(last') \in DOMAIN books /\ Ran(last')) =>
            /\ last'.status = 204 /\ last'.err = Nil
            /\ DOMAIN books' = DOMAIN books \ {PathId(last')}
            /\ \A i \in DOMAIN books' : books'[i] = books[i]
       /\ (/\ last.op = "delete" /\ last.status = 204
           /\ last'.op = "delete" /\ PathId(last') = PathId(last) /\ Ran(last')) =>
            last'.err = ErrNotFound
       /\ \A i \in 1..(nextId - 1) : i \notin DOMAIN books =>
            /\ i \notin DOMAIN books'
            /\ (last'.op \in {"get", "update", "delete"} /\ PathId(last') = i /\ Ran(last')) =>
                 last'.err = ErrNotFound]_vars

\* C3 witness: a delete of an id that was assigned and deleted before gets
\* ErrNotFound while a row created after that deletion exists.
C3_Witness ==
    /\ last.op = "delete" /\ last.err = ErrNotFound
    /\ PathId(last) \in 1..(nextId - 1)
    /\ \E i \in DOMAIN books : i > PathId(last)

\* C6: a successful update of path id i leaves row i with exactly the body's
\* title, author and ISBN (empty where the body has none), whatever id the body
\* carries, answers with id i, and changes no other row.
C6_UpdateOverwrites ==
    [][(last'.op = "update" /\ Success(last'.status)) =>
            /\ PathId(last') \in DOMAIN books
            /\ DOMAIN books' = DOMAIN books
            /\ books'[PathId(last')] = Sent(last'.body)
            /\ last'.book.id = PathId(last')
            /\ Row(last'.book) = Sent(last'.body)
            /\ \A j \in DOMAIN books \ {PathId(last')} : books'[j] = books[j]]_vars

\* C6 witness: a successful update of row 2 by a body that carries id 1 and a
\* title only, while row 1 exists.
C6_Witness ==
    /\ last.op = "update" /\ last.status = 200
    /\ PathId(last) = 2 /\ last.body.id = <<1>> /\ last.body.author = <<>>
    /\ 1 \in DOMAIN books
    /\ books[2] = [title |-> Dune, author |-> <<>>, isbn |-> <<>>]

\* C7: every handler that can get ErrNotFound from the repository answers it
\* with 404, and answers 500 only for the repository's other errors.
C7_NotFoundIs404 ==
    /\ (last.called /\ last.err = ErrNotFound) => last.status = 404
    /\ last.status = 500 => (last.called /\ last.err \in StorageErrors)

\* C8: the text a handler sends when the storage fails is a fixed message of
\* the handler, never the text of the storage error.
C8_GenericErrorText ==
    /\ (last.called /\ last.err \in StorageErrors) => last.text # last.err
    /\ lastList.err \in StorageErrors \cup {SqlError} => lastList.text # lastList.err

\* C9: a path id that is not a number is answered 400 by get, update and
\* delete without a call of the repository.
C9_NonNumericPathRejected ==
    (last.op \in {"get", "update", "delete"} /\ ~Atoi(last.path).ok) =>
        (last.status = 400 /\ ~last.called)

\* The page, page size and search text a list body carries, an absent field
\* being zero or empty.
SentPage(body) == IF body.page = <<>> THEN 0 ELSE body.page[1]
SentSize(body) == IF body.page_size = <<>> THEN 0 ELSE body.page_size[1]
SentSearch(body) == IF body.search = <<>> THEN <<>> ELSE body.search[1]

\* A list request was answered and no driver error came back.
ListRan == lastList.body.valid /\ lastList.status # 0 /\ lastList.err \notin StorageErrors

\* C4: a list request without search text, with page p >= 1 and page size
\* s >= 0 (0 standing for 10), is answered 200, and when no write committed
\* between its two queries and n rows matched, it carries
\* min(s, max(0, n - (p-1)*s)) rows, that number as page_count, and
\* total_count n.
C4_PageArithmetic ==
    LET p == SentPage(lastList.body)
        s == IF SentSize(lastList.body) = 0 THEN 10 ELSE SentSize(lastList.body)
        n == lastList.matched
    IN  (ListRan /\ SentSearch(lastList.body) = <<>> /\ p >= 1 /\ s >= 0) =>
            /\ lastList.status = 200
            /\ ~lastList.overtaken =>
                 /\ Len(lastList.data) = Min(s, Max(0, n - (p - 1) * s))
                 /\ lastList.page_count = Len(lastList.data)
                 /\ lastList.total_count = n

\* C4 witness: page 3 of page size 2 over 5 rows carries 1 row and total_count 5.
C4_Witness ==
    /\ lastList.status = 200 /\ ~lastList.overtaken /\ lastList.matched = 5
    /\ lastList.body.page = <<3>> /\ lastList.body.page_size = <<2>>
    /\ lastList.page_count = 1 /\ Len(lastList.data) = 1 /\ lastList.total_count = 5

\* C5: a list request is answered 200 also when it carries a search text, and
\* then its rows and its total_count are those of the books whose title
\* contains the text, letter case ignored; without a search text they are
\* those of all books.
C5_SearchFilters ==
    LET p == SentPage(lastList.body)
        s == IF SentSize(lastList.body) = 0 THEN 10 ELSE SentSize(lastList.body)
        text == SentSearch(lastList.body)
        hits == IF text = <<>> THEN DOMAIN books
                ELSE {i \in DOMAIN books : ILike(books[i].title, text)}
    IN  (ListRan /\ p >= 1 /\ s >= 0) =>
            /\ lastList.status = 200
            /\ ~lastList.overtaken =>
                 /\ lastList.total_count = Cardinality(hits)
                 /\ Len(lastList.data) = Min(s, Max(0, Cardinality(hits) - (p - 1) * s))
                 /\ \A i \in 1..Len(lastList.data) :
                      /\ lastList.data[i].id \in hits
                      /\ Row(lastList.data[i]) = books[lastList.data[i].id]

\* C10: a list response that no write overtook between the COUNT query and the
\* data query carries as total_count the number of rows that matched when the
\* data query ran, and no more rows than that.
C10_CountMatchesUnlessOvertaken ==
    (lastList.status = 200 /\ ~lastList.overtaken) =>
        /\ lastList.total_count = lastList.matched
        /\ lastList.page_count <= lastList.total_count

\* C10 witness: a write committed between the two queries and the response,
\* a 200, carries more rows than its total_count, which is not the number of
\* rows that matched.
C10_Witness ==
    /\ lastList.status = 200 /\ lastList.overtaken
    /\ lastList.page_count > lastList.total_count
    /\ lastList.total_count # lastList.matched

====
